---- MODULE Spec2Model ----
(***************************************************************************)
(* A model of src/src/processor.cpp: the CPU-target dispatch core.         *)
(*                                                                         *)
(*   Spec        parse_cmdline, one step per comma-free part of the option *)
(*   SpecCommit  parse_cmdline on longer options over fewer tokens         *)
(*   SpecSysimg  parse_sysimg: target walk, result fill-in, relocation     *)
(*   SpecSerial  serialize_target_data / deserialize_target_data           *)
(*   SpecDepends enable_depends / disable_depends                          *)
(*   SpecBits    test_nbit / set_bit / unset_bits / get_feature_masks      *)
(*   SpecExt     append_ext_features, both overloads                       *)
(*                                                                         *)
(* A uint32_t word is the set of its set bit positions (0..31); a string   *)
(* is a sequence of one-character strings.                                 *)
(***************************************************************************)
EXTENDS Integers, Sequences, FiniteSets, TLC

VARIABLES
    \* parse_cmdline
    pc,        \* "start" | "scan" | "done" | "error"
    res,       \* std::vector<TargetData<n>> res
    arg,       \* TargetData<n> arg
    err,       \* the jl_error message, "" if none
    tok,       \* the comma-free part [start, p) handled by the last step
    delim,     \* the character *p that ended it: "," | ";" | NUL, the end of the string
    kind,      \* what the grammar says that part was: "name" | "token" | "none"
    gh,        \* what the option string said of each target so far
    nparts,    \* parts consumed so far
    \* parse_sysimg
    spc,       \* "load" | "walk" | "reloc" | "done" | "assert"
    img,       \* the symbols of the sysimg and the chosen target index
    sres,      \* jl_sysimg_fptrs_t res
    cur,       \* the locals of parse_sysimg
    got,       \* the GOT slots of the data section, by data offset
    junk,      \* the word an out-of-bounds read returns
    \* serialize / deserialize
    zpc,       \* "start" | "header" | "record" | "done" | "assert"
    zin,       \* the targets and the nfeature the blob is written from
    blob,      \* the bytes of jl_dispatch_target_ids
    zpos,      \* data, as an offset into blob
    zi,        \* i of deserialize_target_data's loop
    zout,      \* std::vector<TargetData<n>> res of deserialize_target_data
    \* enable_depends / disable_depends
    dpc,       \* "while" | "for" | "done"
    dfn,       \* "enable" | "disable"
    deps,      \* const FeatureDep *deps, ndeps
    din,       \* the features passed in
    dset,      \* features
    di,        \* i of the for loop
    dchanged,  \* changed
    dpass,     \* rounds of the while loop begun
    dround,    \* 1: the call on din, 2: the call on its result
    dfirst,    \* the result of the first call
    \* test_nbit / set_bit / unset_bits / get_feature_masks
    bpc,       \* "call" | "done" | "fault"
    bop,       \* the function called
    bidx,      \* its bit index argument(s)
    bin,       \* bits, before the call
    bfl,       \* bits, after the call
    bret,      \* what test_nbit returned
    boob,      \* whether the call touched memory outside the n words
    \* append_ext_features
    epc,       \* "call" | "vector" | "string"
    eext,      \* ext_features
    evec0,     \* std::vector<std::string> features, before the call
    evec,      \* and after
    estr0,     \* std::string features, before the call
    estr       \* and after

pvars == <<pc, res, arg, err, tok, delim, kind, gh, nparts>>
svars == <<spc, img, sres, cur, got, junk>>
zvars == <<zpc, zin, blob, zpos, zi, zout>>
dvars == <<dpc, dfn, deps, din, dset, di, dchanged, dpass, dround, dfirst>>
bvars == <<bpc, bop, bidx, bin, bfl, bret, boob>>
evars == <<epc, eext, evec0, evec, estr0, estr>>
xvars == <<bvars, evars>>
vars == <<pvars, svars, zvars, dvars, xvars>>

(***************************************************************************)
(* Bounds of the model.                                                    *)
(***************************************************************************)
\* comma-free parts in one option string
MaxParts == 5
\* n of FeatureList<n>
NWords == 2
\* targets compiled into a sysimg
MaxTargets == 3
\* nfunc, the functions of a sysimg
NFunc == 2
\* targets in one jl_dispatch_target_ids blob
MaxRecords == 2
\* ndeps, the edges of a dependency list
MaxDeps == 3
\* comma-free parts in one option string over CommitTokens
MaxCommitParts == 6
\* entries of one ext_features string
MaxEntries == 3

(***************************************************************************)
(* uint32_t words and FeatureList<n>.                                      *)
(***************************************************************************)
WordBits == 32
Bits == 0 .. (WordBits - 1)

FeatureList == [0 .. (NWords - 1) -> SUBSET Bits]
ZeroFeatures == [i \in 0 .. (NWords - 1) |-> {}]

test_nbit(bits, bitidx) ==
    LET u32idx == bitidx \div WordBits
        bit == bitidx % WordBits
    IN  bit \in bits[u32idx]

set_bit(bits, bitidx, val) ==
    LET u32idx == bitidx \div WordBits
        bit == bitidx % WordBits
    IN  IF val
        THEN [bits EXCEPT ![u32idx] = @ \cup {bit}]
        ELSE [bits EXCEPT ![u32idx] = @ \ {bit}]

unset_bits(bits, bitidx) ==
    LET u32idx == bitidx \div WordBits
        bit == bitidx % WordBits
    IN  [bits EXCEPT ![u32idx] = @ \ {bit}]

JL_TARGET_CLONE_ALL == {0}

(***************************************************************************)
(* Strings.                                                                *)
(***************************************************************************)
Digits == {"0", "1", "2", "3", "4", "5", "6", "7", "8", "9"}

DigitVal(c) ==
    CASE c = "0" -> 0 [] c = "1" -> 1 [] c = "2" -> 2 [] c = "3" -> 3
      [] c = "4" -> 4 [] c = "5" -> 5 [] c = "6" -> 6 [] c = "7" -> 7
      [] c = "8" -> 8 [] c = "9" -> 9

\* s[j], or the delimiter d that follows the part when j is one past its end
CharAt(s, j, d) == IF j <= Len(s) THEN s[j] ELSE d

Tail1(s) == SubSeq(s, 2, Len(s))

\* the terminating '\0' of a C string
NUL == "NUL"

(***************************************************************************)
(* The registry the feature callback looks names up in.  The tables and    *)
(* the callback are per architecture (processor_x86.cpp and the like).     *)
(***************************************************************************)
feature_names ==
    << [name |-> <<"a", "v", "x">>, bit |-> 1],
       [name |-> <<"s", "v", "e">>, bit |-> WordBits + 2] >>

\* (uint32_t)-1, find_feature_bit's "no such feature"
NoFeature == -1

RECURSIVE find_feature_bit_from(_, _, _)
find_feature_bit_from(features, i, str) ==
    IF i > Len(features) THEN NoFeature
    ELSE IF features[i].name = str THEN features[i].bit
    ELSE find_feature_bit_from(features, i + 1, str)

find_feature_bit(features, str) == find_feature_bit_from(features, 1, str)

\* feature_cb(fname, len, list): [found, list]
feature_cb(fname, list) ==
    LET fbit == find_feature_bit(feature_names, fname)
    IN  IF fbit = NoFeature
        THEN [found |-> FALSE, list |-> list]
        ELSE [found |-> TRUE, list |-> set_bit(list, fbit, TRUE)]

(***************************************************************************)
(* get_clone_base.  strtol's long is 64 bits wide (LP64); the model keeps  *)
(* its low 32 bits as two 16-bit halves, which is what the cast to int     *)
(* keeps of it.                                                            *)
(***************************************************************************)
Half == 65536
IntMax == 2147483647

RECURSIVE strtol(_, _, _, _, _)
strtol(s, j, d, hi, lo) ==
    IF CharAt(s, j, d) \notin Digits
    THEN [digit_end |-> j, hi |-> hi, lo |-> lo]
    ELSE LET l == lo * 10 + DigitVal(s[j])
             h == hi * 10 + (l \div Half)
         IN  strtol(s, j + 1, d, h % Half, l % Half)

\* (int)idx
AsInt(hi, lo) ==
    IF hi < Half \div 2 THEN hi * Half + lo ELSE (hi - Half) * Half + lo

clone_base_prefix == <<"b", "a", "s", "e", "(">>

\* get_clone_base without the test digit_end + 1 != end
get_clone_base_any_tail(s, d) ==
    LET prefix_len == Len(clone_base_prefix)
    IN  IF Len(s) <= prefix_len THEN {0}
        ELSE IF SubSeq(s, 1, prefix_len) # clone_base_prefix THEN {0}
        ELSE IF s[prefix_len + 1] \notin Digits THEN {0}
        ELSE LET r == strtol(s, prefix_len + 1, d, 0, 0)
                 idx == AsInt(r.hi, r.lo)
             IN  IF CharAt(s, r.digit_end, d) # ")"
                 THEN {0}
                 ELSE IF idx = IntMax THEN {0, 1, -IntMax}
                 ELSE {idx + 1}

\* The values get_clone_base(start, end) can return for the part s = [start, end)
\* that is followed by the character d.  More than one only where (int)idx + 1
\* overflows, which is undefined.
get_clone_base(s, d) ==
    LET prefix_len == Len(clone_base_prefix)
    IN  IF Len(s) <= prefix_len THEN {0}
        ELSE IF SubSeq(s, 1, prefix_len) # clone_base_prefix THEN {0}
        ELSE IF s[prefix_len + 1] \notin Digits THEN {0}
        ELSE LET r == strtol(s, prefix_len + 1, d, 0, 0)
                 idx == AsInt(r.hi, r.lo)
             IN  IF CharAt(s, r.digit_end, d) # ")" \/ r.digit_end + 1 # Len(s) + 1
                 THEN {0}
                 ELSE IF idx = IntMax THEN {0, 1, -IntMax}
                 ELSE {idx + 1}

(***************************************************************************)
(* TargetData<n> and parse_cmdline.                                        *)
(***************************************************************************)
\* TargetData<n> arg{}
TargetData0 ==
    [name |-> <<>>, ext_features |-> <<>>,
     en |-> [features |-> ZeroFeatures, flags |-> {}],
     dis |-> [features |-> ZeroFeatures, flags |-> {}],
     base |-> 0]

\* reset_arg that keeps the committed target's name in arg
reset_arg_keep_name(r, a) ==
    [res |-> Append(r, a),
     arg |-> [a EXCEPT !.ext_features = <<>>,
                       !.en.features = ZeroFeatures, !.dis.features = ZeroFeatures,
                       !.en.flags = {}, !.dis.flags = {}]]

reset_arg(r, a) ==
    [res |-> Append(r, a),
     arg |-> [a EXCEPT !.name = <<>>, !.ext_features = <<>>,
                       !.en.features = ZeroFeatures, !.dis.features = ZeroFeatures,
                       !.en.flags = {}, !.dis.flags = {}]]

\* if (next_target) reset_arg();
next_target(r, a, d) ==
    IF d \in {";", NUL} THEN reset_arg(r, a) ELSE [res |-> r, arg |-> a]

clone_all == <<"c", "l", "o", "n", "e", "_", "a", "l", "l">>

\* bool disable; const char *fname
Disable(part) == Len(part) > 0 /\ part[1] = "-"
FName(part) ==
    IF Len(part) > 0 /\ part[1] \in {"-", "+"} THEN Tail1(part) ELSE part

(***************************************************************************)
(* The option strings: a CPU name is one of NameParts, every other         *)
(* comma-free part one of TokenParts.                                      *)
(***************************************************************************)
NameParts == { <<>>, <<"g">>, <<"h">> }

TokenParts ==
    { <<>>,
      <<"f", "u", "t">>,
      <<"-", "f", "u", "t">>,
      <<"a", "v", "x">>,
      <<"-", "s", "v", "e">>,
      clone_all,
      <<"-">> \o clone_all,
      <<"+">> \o clone_all,
      <<"b", "a", "s", "e", "(", "0", ")">>,
      <<"b", "a", "s", "e", "(", "1", ")">>,
      <<"-", "b", "a", "s", "e", "(", "0", ")">>,
      <<"b", "a", "s", "e", "(", "x", ")">>,
      <<"-", "b", "a", "s", "e", "(", "x", ")">>,
      <<"b", "a", "s", "e", "(", "0">>,
      <<"b", "a", "s", "e", "(", ")">>,
      <<"b", "a", "s", "e", "(", "0", ")", "x">>,
      <<"b", "a", "s", "e", "(", "4", "2", "9", "4", "9", "6", "7", "2", "9", "6", ")">> }

Delims == {",", ";", NUL}

(***************************************************************************)
(* What the option string says, read off the grammar of section 4.3        *)
(* without the parser: for each target, its CPU name, the polarity of its  *)
(* last clone_all token and the digits of its last enabled base(k) token.  *)
(***************************************************************************)
AllDigits(s) == \A j \in 1 .. Len(s) : s[j] \in Digits

\* base( digits ), at least one digit
IsBaseTok(f) ==
    /\ Len(f) >= Len(clone_base_prefix) + 2
    /\ SubSeq(f, 1, Len(clone_base_prefix)) = clone_base_prefix
    /\ f[Len(f)] = ")"
    /\ AllDigits(SubSeq(f, Len(clone_base_prefix) + 1, Len(f) - 1))

BaseDigits(f) == SubSeq(f, Len(clone_base_prefix) + 1, Len(f) - 1)

Unsigned(part) ==
    IF Len(part) > 0 /\ part[1] \in {"+", "-"} THEN Tail1(part) ELSE part
Minus(part) == Len(part) > 0 /\ part[1] = "-"

NextKind == IF delim \in {"none", ";"} THEN "name" ELSE "token"

GhName(part) == Append(gh, [name |-> part, clone |-> "none", base |-> "none"])

GhToken(part) ==
    LET f == Unsigned(part)
        last == gh[Len(gh)]
    IN  [gh EXCEPT ![Len(gh)] =
            IF f = clone_all
            THEN [last EXCEPT !.clone = IF Minus(part) THEN "dis" ELSE "en"]
            ELSE IF IsBaseTok(f) /\ ~Minus(part)
            THEN [last EXCEPT !.base = BaseDigits(f)]
            ELSE last]

Observe(part, d) ==
    /\ tok' = part
    /\ delim' = d
    /\ kind' = NextKind
    /\ gh' = IF NextKind = "name" THEN GhName(part) ELSE GhToken(part)
    /\ nparts' = nparts + 1

(***************************************************************************)
(* parse_cmdline, one action per way through the body of                   *)
(* case ',': case ';': case '\0'.                                          *)
(***************************************************************************)
jl_error(msg) ==
    /\ pc' = "error"
    /\ err' = msg
    /\ UNCHANGED <<res, arg>>

\* after a part is handled: if (next_target) reset_arg(); if (done) return res;
Finish(r, a, d) ==
    LET n == next_target(r, a, d)
    IN  /\ res' = n.res
        /\ arg' = n.arg
        /\ pc' = IF d = NUL THEN "done" ELSE "scan"
        /\ err' = err

\* if (!option) return res;
ParseNull ==
    /\ pc = "start"
    /\ pc' = "done"
    /\ UNCHANGED <<res, arg, err, tok, delim, kind, gh, nparts>>
    /\ UNCHANGED <<svars, zvars, dvars, xvars>>

ParseBegin ==
    /\ pc = "start"
    /\ pc' = "scan"
    /\ UNCHANGED <<res, arg, err, tok, delim, kind, gh, nparts>>
    /\ UNCHANGED <<svars, zvars, dvars, xvars>>

\* the scan is at a delimiter, with fewer than bound parts behind it
ScanningTo(bound) == pc = "scan" /\ nparts < bound
Scanning == ScanningTo(MaxParts)

\* if (arg.name.empty()) { if (p == start) jl_error(...)
ParseEmptyNameTo(bound) ==
    /\ ScanningTo(bound)
    /\ arg.name = <<>>
    /\ \E d \in Delims :
        /\ jl_error("Invalid target option: empty CPU name")
        /\ Observe(<<>>, d)
    /\ UNCHANGED <<svars, zvars, dvars, xvars>>

ParseEmptyName == ParseEmptyNameTo(MaxParts)

\* arg.name.append(start, p - start); for a name drawn from names
ParseNameIn(names, bound) ==
    /\ ScanningTo(bound)
    /\ arg.name = <<>>
    /\ \E part \in names \ {<<>>}, d \in Delims :
        /\ Finish(res, [arg EXCEPT !.name = part], d)
        /\ Observe(part, d)
    /\ UNCHANGED <<svars, zvars, dvars, xvars>>

ParseName == ParseNameIn(NameParts, MaxParts)

\* set_clone_all that leaves the other side's bit alone
set_clone_all_keep_other(a, disable) ==
    IF ~disable
    THEN [a EXCEPT !.en.flags = @ \cup JL_TARGET_CLONE_ALL]
    ELSE [a EXCEPT !.dis.flags = @ \cup JL_TARGET_CLONE_ALL]

set_clone_all(a, disable) ==
    IF ~disable
    THEN [a EXCEPT !.en.flags = @ \cup JL_TARGET_CLONE_ALL,
                   !.dis.flags = @ \ JL_TARGET_CLONE_ALL]
    ELSE [a EXCEPT !.dis.flags = @ \cup JL_TARGET_CLONE_ALL,
                   !.en.flags = @ \ JL_TARGET_CLONE_ALL]

\* The flag words res[base] reads.  A negative base reads in front of the
\* vector's storage: whatever lies there.
BaseFlags(r, base) ==
    IF base >= 0
    THEN {[en |-> r[base + 1].en.flags, dis |-> r[base + 1].dis.flags]}
    ELSE [en : {{}, JL_TARGET_CLONE_ALL}, dis : {{}, JL_TARGET_CLONE_ALL}]

\* append_ext without the separating comma
append_ext_no_comma(ext, disable, fname) ==
    ext \o <<IF disable THEN "-" ELSE "+">> \o fname

append_ext(ext, disable, fname) ==
    (IF ext # <<>> THEN ext \o <<",">> ELSE ext)
        \o <<IF disable THEN "-" ELSE "+">> \o fname

\* The else branch: the feature callback, and ext_features when it finds nothing.
parse_feature(a, disable, fname) ==
    LET cb == feature_cb(fname, IF disable THEN a.dis.features ELSE a.en.features)
    IN  IF cb.found
        THEN IF disable THEN [a EXCEPT !.dis.features = cb.list]
                        ELSE [a EXCEPT !.en.features = cb.list]
        ELSE [a EXCEPT !.ext_features = append_ext(@, disable, fname)]

\* else if (int base = get_clone_base(fname, p)) { ... }
parse_base(b, disable, d) ==
    LET base == b - 1
    IN  IF disable
        THEN jl_error("Invalid target option: disabled base index.")
        ELSE IF base >= Len(res)
        THEN jl_error("Invalid target option: base index must refer to a previous target.")
        ELSE \E f \in BaseFlags(res, base) :
               IF f.dis \cap JL_TARGET_CLONE_ALL # {} \/ f.en \cap JL_TARGET_CLONE_ALL = {}
               THEN jl_error("Invalid target option: base target must be clone_all.")
               ELSE Finish(res, [arg EXCEPT !.base = base], d)

\* The body of case ',': case ';': case '\0' once the CPU name is known, for a
\* part drawn from tokens.
ParseTokenIn(tokens, bound) ==
    /\ ScanningTo(bound)
    /\ arg.name # <<>>
    /\ \E part \in tokens, d \in Delims :
        LET disable == Disable(part)
            fname == FName(part)
        IN  /\ IF fname = clone_all
               THEN Finish(res, set_clone_all(arg, disable), d)
               ELSE \E b \in get_clone_base(fname, d) :
                      IF b # 0
                      THEN parse_base(b, disable, d)
                      ELSE Finish(res, parse_feature(arg, disable, fname), d)
            /\ Observe(part, d)
    /\ UNCHANGED <<svars, zvars, dvars, xvars>>

ParseToken == ParseTokenIn(TokenParts, MaxParts)

PInit ==
    /\ pc = "start"
    /\ res = <<>>
    /\ arg = TargetData0
    /\ err = ""
    /\ tok = <<>>
    /\ delim = "none"
    /\ kind = "none"
    /\ gh = <<>>
    /\ nparts = 0

SIdle == spc = "idle" /\ img = <<>> /\ sres = <<>> /\ cur = <<>> /\ got = <<>> /\ junk = <<>>
ZIdle ==
    zpc = "idle" /\ zin = <<>> /\ blob = <<>> /\ zpos = 0 /\ zi = 0 /\ zout = <<>>
DIdle ==
    /\ dpc = "idle" /\ dfn = "none" /\ deps = <<>> /\ din = <<>> /\ dset = <<>>
    /\ di = 0 /\ dchanged = FALSE /\ dpass = 0 /\ dround = 0 /\ dfirst = <<>>
BIdle ==
    /\ bpc = "idle" /\ bop = "none" /\ bidx = <<>> /\ bin = <<>> /\ bfl = <<>>
    /\ bret = FALSE /\ boob = FALSE
EIdle ==
    /\ epc = "idle" /\ eext = <<>> /\ evec0 = <<>> /\ evec = <<>>
    /\ estr0 = <<>> /\ estr = <<>>
XIdle == BIdle /\ EIdle

Init == PInit /\ SIdle /\ ZIdle /\ DIdle /\ XIdle

Next ==
    \/ ParseNull
    \/ ParseBegin
    \/ ParseEmptyName
    \/ ParseName
    \/ ParseToken

Spec == Init /\ [][Next]_vars

(***************************************************************************)
(* Reading the parser's state against the option string.                   *)
(***************************************************************************)
\* the target the last part belongs to, as the parser holds it after the step
TargetNow == IF delim = "," THEN arg ELSE res[Len(res)]
\* its 0-based index
IndexNow == Len(gh) - 1

HasCloneAll(t) ==
    /\ t.en.flags \cap JL_TARGET_CLONE_ALL # {}
    /\ t.dis.flags \cap JL_TARGET_CLONE_ALL = {}

\* the number a digit string writes; IntMax stands for every number past 9 digits
RECURSIVE DecimalFrom(_, _, _)
DecimalFrom(s, j, acc) ==
    IF j > Len(s) THEN acc ELSE DecimalFrom(s, j + 1, acc * 10 + DigitVal(s[j]))
Decimal(s) == IF Len(s) > 9 THEN IntMax ELSE DecimalFrom(s, 1, 0)

StartsWithBase(f) ==
    /\ Len(f) >= Len(clone_base_prefix)
    /\ SubSeq(f, 1, Len(clone_base_prefix)) = clone_base_prefix

KnownFeature(f) == \E i \in 1 .. Len(feature_names) : feature_names[i].name = f

TokenSeen == kind = "token"
Returned == pc = "done"
Aborted == pc = "error"

(***************************************************************************)
(* C1.  A well-formed base(k) token with enable polarity is accepted only  *)
(* when k is smaller than the index of the target being parsed and target  *)
(* k has CLONE_ALL enabled and not disabled, and then the target's base is *)
(* k; in every other case parsing aborts.  Hence in every returned list a  *)
(* target i that carries a base(k) token has base = k < i and target k is  *)
(* clone_all.                                                              *)
(***************************************************************************)
C1_BaseStep ==
    (TokenSeen /\ IsBaseTok(Unsigned(tok)) /\ ~Minus(tok)) =>
        LET k == Decimal(BaseDigits(Unsigned(tok)))
        IN  IF k < IndexNow /\ HasCloneAll(res[k + 1])
            THEN ~Aborted /\ TargetNow.base = k
            ELSE Aborted

C1_BaseReturned ==
    Returned =>
        \A i \in 1 .. Len(res) :
            gh[i].base # "none" =>
                LET k == Decimal(gh[i].base)
                IN  /\ res[i].base = k
                    /\ k < i - 1
                    /\ HasCloneAll(res[k + 1])

C1_BaseRefersToPreviousCloneAll == C1_BaseStep /\ C1_BaseReturned

(***************************************************************************)
(* C5.  As claimed: every token starting with base( that is malformed, and *)
(* every base(...) token with disable polarity, aborts the parse.          *)
(***************************************************************************)
MalformedBase(part) ==
    StartsWithBase(Unsigned(part)) /\ ~IsBaseTok(Unsigned(part))

ExtEntry(part) == <<IF Minus(part) THEN "-" ELSE "+">> \o Unsigned(part)

IsSuffix(e, s) ==
    /\ Len(e) <= Len(s)
    /\ SubSeq(s, Len(s) - Len(e) + 1, Len(s)) = e

Unrecognised(part) ==
    /\ Unsigned(part) # clone_all
    /\ ~IsBaseTok(Unsigned(part))
    /\ ~KnownFeature(Unsigned(part))

SignedEntries(ext) ==
    /\ ext # <<>> => ext[1] \in {"+", "-"}
    /\ \A j \in 1 .. Len(ext) :
          ext[j] = "," => (j < Len(ext) /\ ext[j + 1] \in {"+", "-"})

C6_Entries ==
    /\ SignedEntries(arg.ext_features)
    /\ \A i \in 1 .. Len(res) : SignedEntries(res[i].ext_features)

C6_Step ==
    (nparts' = nparts + 1 /\ kind' = "token") =>
        IF Unrecognised(tok')
        THEN /\ pc' # "error"
             /\ TargetNow'.ext_features =
                    (IF arg.ext_features = <<>> THEN <<>>
                     ELSE arg.ext_features \o <<",">>) \o ExtEntry(tok')
             /\ TargetNow'.en = arg.en
             /\ TargetNow'.dis = arg.dis
        ELSE pc' # "error" => TargetNow'.ext_features = arg.ext_features

C6_UnknownTokensGoToExt == [][C6_Step]_vars /\ []C6_Entries

C6_Witness ==
    /\ TokenSeen
    /\ Unrecognised(tok)
    /\ Minus(tok)
    /\ \E j \in 1 .. Len(TargetNow.ext_features) : TargetNow.ext_features[j] = ","
    /\ TargetNow.en.features # ZeroFeatures

(***************************************************************************)
(* C9.  In every target of the list CLONE_ALL is never set in both         *)
(* en.flags and dis.flags: the side named by the target's last clone_all   *)
(* token has the bit and the other side has not; a target with no          *)
(* clone_all token has it in neither, whatever earlier targets had.        *)
(***************************************************************************)
CloneMatches(t, c) ==
    /\ (t.en.flags \cap JL_TARGET_CLONE_ALL # {}) <=> (c = "en")
    /\ (t.dis.flags \cap JL_TARGET_CLONE_ALL # {}) <=> (c = "dis")

C9_CloneAllExclusive ==
    /\ \A i \in 1 .. Len(res) : CloneMatches(res[i], gh[i].clone)
    /\ (~Aborted /\ Len(gh) > Len(res)) => CloneMatches(arg, gh[Len(gh)].clone)

C9_Witness ==
    /\ Returned
    /\ Len(res) = 3
    /\ gh[1].clone = "en"
    /\ gh[2].clone = "none"
    /\ gh[3].clone = "dis"
    /\ tok = <<"-">> \o clone_all

(***************************************************************************)
(* C10.  parse_cmdline commits one TargetData per ;-separated segment, in  *)
(* order, named by the segment's first part; an empty CPU name aborts with *)
(* "empty CPU name" and nothing else does; a null option returns the empty *)
(* list.                                                                   *)
(***************************************************************************)
EmptyNameError == "Invalid target option: empty CPU name"

Word(tag, val) == [tag |-> tag, val |-> val]
Ptr(arr, pos) == [arr |-> arr, pos |-> pos]
Null == Ptr("null", 0)

Funcs == 0 .. (NFunc - 1)

\* jl_sysimg_fvars_base
TextBase == 1000
\* the code offsets the image holds: the default target's, a CLONE_ALL
\* target's own, a sparse target's overrides
DefaultOff(f) == 10 + f
CloneOff(t, f) == IF t = 0 THEN DefaultOff(f) ELSE 100 * t + 10 + f
OverrideOff(t, f) == 100 * t + 50 + f
\* the data offset of function f's GOT slot
SlotOf(f) == 8 * (f + 1)

RECURSIVE SortedSeq(_)
SortedSeq(S) ==
    IF S = {} THEN <<>>
    ELSE LET m == CHOOSE x \in S : \A y \in S : x <= y
         IN  <<m>> \o SortedSeq(S \ {m})

\* the index entries of a target that lists the functions S, those of T tagged
Entries(S, T) ==
    LET fs == SortedSeq(S)
    IN  [i \in 1 .. Len(fs) |-> Word(fs[i] \in T, fs[i])]

\* Targets of an image.  The chosen target k lists any functions with any
\* tags; another target lists none or the first function.
TargetChoices(t, k) ==
    LET lens == {{}, {0}}
        full == IF t = k THEN {Entries(S, {}) : S \in SUBSET Funcs}
                ELSE {Entries(S, {}) : S \in lens}
        sparse == IF t = k
                  THEN UNION {{Entries(S, T) : T \in SUBSET S} : S \in SUBSET Funcs}
                  ELSE {Entries(S, S) : S \in lens}
    IN  {[all |-> TRUE, base |-> 0, ents |-> e] : e \in full}
        \cup {[all |-> FALSE, base |-> b, ents |-> e] : b \in 0 .. (t - 1), e \in sparse}

RECURSIVE TargetLists(_, _, _)
TargetLists(t, M, k) ==
    IF t = M THEN {<<>>}
    ELSE {<<x>> \o rest : x \in TargetChoices(t, k), rest \in TargetLists(t + 1, M, k)}

\* One target's words in jl_dispatch_fvars_idxs and in jl_dispatch_fvars_offsets.
\* Layout "loader" is the one parse_sysimg reads: the base index follows the
\* tag-length word, and target 0 has no offsets of its own.  Layout "spec" is the
\* one of section 4.6: the base index leads the target's offsets, and every
\* CLONE_ALL target has nfunc offsets.
IdxBlock(tg, layout) ==
    <<Word(tg.all, Len(tg.ents))>>
        \o (IF ~tg.all /\ layout = "loader" THEN <<Word(FALSE, tg.base)>> ELSE <<>>)
        \o tg.ents

OffBlock(tg, t, layout) ==
    IF tg.all
    THEN IF t = 0 /\ layout = "loader" THEN <<>>
         ELSE [j \in 1 .. NFunc |-> CloneOff(t, j - 1)]
    ELSE (IF layout = "spec" THEN <<tg.base>> ELSE <<>>)
         \o [i \in 1 .. Len(tg.ents) |-> OverrideOff(t, tg.ents[i].val)]

RECURSIVE IdxStream(_, _, _)
IdxStream(tgts, n, layout) ==
    IF n = 0 THEN <<>>
    ELSE IdxStream(tgts, n - 1, layout) \o IdxBlock(tgts[n], layout)

RECURSIVE OffStream(_, _, _)
OffStream(tgts, n, layout) ==
    IF n = 0 THEN <<>>
    ELSE OffStream(tgts, n - 1, layout) \o OffBlock(tgts[n], n - 1, layout)

\* jl_dispatch_reloc_slots for the functions R, ascending
RelocSlots(R) ==
    LET fs == SortedSeq(R)
    IN  [i \in 1 .. Len(fs) |-> [idx |-> Word(FALSE, fs[i]), off |-> SlotOf(fs[i])]]

Image(tgts, k, R, layout, init) ==
    [nfunc |-> NFunc,
     fvars |-> [j \in 1 .. NFunc |-> DefaultOff(j - 1)],
     reloc |-> RelocSlots(R),
     idxs |-> IdxStream(tgts, Len(tgts), layout),
     offs |-> OffStream(tgts, Len(tgts), layout),
     k |-> k,
     layout |-> layout,
     tgts |-> tgts,
     slots |-> R,
     init |-> init]

\* The images the loader is run on: in the layout the loader reads, with GOT
\* slots for the functions R, zeroed, or for all functions, preset to the default
\* target's code; or in the layout of section 4.6, with a zeroed slot for every
\* function.
ImageKinds ==
    {[slots |-> R, layout |-> "loader", init |-> "null"] : R \in SUBSET Funcs}
    \cup {[slots |-> Funcs, layout |-> "loader", init |-> "default"],
          [slots |-> Funcs, layout |-> "spec", init |-> "null"]}

\* what the image's data section holds in a GOT slot before the loader runs
InitialSlot(image, f) ==
    IF image.init = "null" THEN 0 ELSE TextBase + DefaultOff(f)

(***************************************************************************)
(* parse_sysimg: the loader.  assert is compiled in: a failed assertion    *)
(* ends the run in "assert".                                               *)
(***************************************************************************)
\* clone_idxs[...]: a word of jl_dispatch_fvars_idxs, or what lies past it
ReadIdx(image, j, pos) ==
    IF pos >= 0 /\ pos < Len(image.idxs) THEN image.idxs[pos + 1]
    ELSE Word(j.tag, j.val)

\* ptr[n] for an int32_t pointer; n is a word read as an index
ReadOff(image, j, ptr, n) ==
    LET a == IF ptr.arr = "fvars" THEN image.fvars
             ELSE IF ptr.arr = "offs" THEN image.offs
             ELSE <<>>
        at == ptr.pos + n.val
    IN  IF ~n.tag /\ at >= 0 /\ at < Len(a) THEN a[at + 1] ELSE j.val

\* unsigned comparison of two words
WordLess(a, b) == (~a.tag /\ b.tag) \/ (a.tag = b.tag /\ a.val < b.val)

FvarsPtr == Ptr("fvars", 0)

\* jl_sysimg_fptrs_t res = {nullptr, 0, nullptr, 0, nullptr, nullptr}; res.base,
\* res.offsets set from the image
Result0 ==
    [base |-> TextBase, offsets |-> FvarsPtr, nclones |-> 0,
     clone_offsets |-> Null, clone_idxs |-> Null]

\* the locals up to the target walk
SysLoad ==
    /\ spc = "load"
    /\ LET tag_len == ReadIdx(img, junk, 0)
       IN  /\ cur' = [i |-> 0, tag_len |-> tag_len, clone_idxs |-> 1,
                      clone_offsets |-> 0, base_offsets |-> <<FvarsPtr>>,
                      clone_all |-> FALSE, reloc_i |-> 0, ri |-> 0]
           /\ sres' = Result0
           /\ spc' = IF tag_len.tag THEN "walk" ELSE "assert"
    /\ UNCHANGED <<img, got, junk>>
    /\ UNCHANGED <<pvars, zvars, dvars, xvars>>

\* the cursor moves of one round of "Find target", sparse miscounted by one
walk_advance_short(c, nfunc) ==
    LET len == c.tag_len.val
    IN  IF c.tag_len.tag
        THEN [c EXCEPT !.clone_offsets = IF c.i # 0 THEN @ + nfunc ELSE @,
                       !.clone_idxs = @ + len + 1]
        ELSE [c EXCEPT !.clone_offsets = @ + len,
                       !.clone_idxs = @ + len + 1]

\* the cursor moves of one round of "Find target"
walk_advance(c, nfunc) ==
    LET len == c.tag_len.val
    IN  IF c.tag_len.tag
        THEN [c EXCEPT !.clone_offsets = IF c.i # 0 THEN @ + nfunc ELSE @,
                       !.clone_idxs = @ + len + 1]
        ELSE [c EXCEPT !.clone_offsets = @ + len,
                       !.clone_idxs = @ + len + 2]

\* base_offsets.push_back that records the default offsets for every target
record_base_default(base_offsets, tag_len, clone_offsets) ==
    Append(base_offsets, IF tag_len.tag THEN FvarsPtr ELSE Null)

\* base_offsets.push_back(tag_len & tag_mask ? clone_offsets : nullptr)
record_base(base_offsets, tag_len, clone_offsets) ==
    Append(base_offsets, IF tag_len.tag THEN Ptr("offs", clone_offsets) ELSE Null)

\* one round of for (uint32_t i = 0; i < target_idx; i++)
SysWalk ==
    /\ spc = "walk"
    /\ cur.i < img.k
    /\ LET c == walk_advance(cur, img.nfunc)
           tag_len == ReadIdx(img, junk, c.clone_idxs - 1)
       IN  cur' = [c EXCEPT !.tag_len = tag_len,
                            !.base_offsets = record_base(@, tag_len, c.clone_offsets),
                            !.i = @ + 1]
    /\ UNCHANGED <<spc, img, sres, got, junk>>
    /\ UNCHANGED <<pvars, zvars, dvars, xvars>>

\* "Fill in return value"
SysFill ==
    /\ spc = "walk"
    /\ cur.i >= img.k
    /\ LET all == cur.tag_len.tag
           base_idx == ReadIdx(img, junk, cur.clone_idxs)
           base_ok == ~base_idx.tag /\ base_idx.val < img.k
           offsets == cur.base_offsets[base_idx.val + 1]
       IN  IF all
           THEN /\ sres' = IF img.k # 0
                           THEN [sres EXCEPT !.offsets = Ptr("offs", cur.clone_offsets)]
                           ELSE sres
                /\ cur' = [cur EXCEPT !.clone_all = TRUE]
                /\ spc' = "reloc"
           ELSE IF ~base_ok \/ offsets = Null
           THEN /\ spc' = "assert"
                /\ UNCHANGED <<sres, cur>>
           ELSE /\ sres' = [sres EXCEPT !.offsets = offsets,
                                        !.nclones = cur.tag_len.val,
                                        !.clone_offsets = Ptr("offs", cur.clone_offsets),
                                        !.clone_idxs = Ptr("idxs", cur.clone_idxs + 1)]
                /\ cur' = [cur EXCEPT !.clone_idxs = @ + 1, !.clone_all = FALSE]
                /\ spc' = "reloc"
    /\ UNCHANGED <<img, got, junk>>
    /\ UNCHANGED <<pvars, zvars, dvars, xvars>>

\* the inner loop over reloc_slots: [reloc_i, found, got]
RECURSIVE scan_reloc(_, _, _, _, _, _)
scan_reloc(reloc, reloc_i, idx, value, found, g) ==
    IF reloc_i >= Len(reloc)
    THEN [reloc_i |-> reloc_i, found |-> found, got |-> g]
    ELSE LET reloc_idx == reloc[reloc_i + 1].idx
         IN  IF reloc_idx = idx
             THEN scan_reloc(reloc, reloc_i + 1, idx, value, TRUE,
                             [g EXCEPT ![reloc[reloc_i + 1].off] = value])
             ELSE IF WordLess(idx, reloc_idx)
             THEN [reloc_i |-> reloc_i, found |-> found, got |-> g]
             ELSE scan_reloc(reloc, reloc_i + 1, idx, value, found, g)

\* the offset of a sparse target's tagged entry, taken from res.offsets instead
reloc_offset_from_default(image, j, r, c, i, idx) ==
    ReadOff(image, j, r.offsets, Word(FALSE, idx.val))

\* int32_t offset for entry i with index word idx
reloc_offset(image, j, r, c, i, idx) ==
    IF c.clone_all
    THEN ReadOff(image, j, r.offsets, idx)
    ELSE ReadOff(image, j, Ptr("offs", c.clone_offsets), Word(FALSE, i))

\* one round of "Do relocation"
SysReloc ==
    /\ spc = "reloc"
    /\ cur.ri < cur.tag_len.val
    /\ LET raw == ReadIdx(img, junk, cur.clone_idxs + cur.ri)
           skip == ~cur.clone_all /\ ~raw.tag
           idx == IF cur.clone_all THEN raw ELSE Word(FALSE, raw.val)
           offset == reloc_offset(img, junk, sres, cur, cur.ri, raw)
           r == scan_reloc(img.reloc, cur.reloc_i, idx, offset + sres.base, FALSE, got)
       IN  IF skip
           THEN /\ cur' = [cur EXCEPT !.ri = @ + 1]
                /\ UNCHANGED <<spc, got>>
           ELSE /\ cur' = [cur EXCEPT !.ri = @ + 1, !.reloc_i = r.reloc_i]
                /\ got' = r.got
                /\ spc' = IF r.found THEN "reloc" ELSE "assert"
    /\ UNCHANGED <<img, sres, junk>>
    /\ UNCHANGED <<pvars, zvars, dvars, xvars>>

\* return res;
SysReturn ==
    /\ spc = "reloc"
    /\ cur.ri >= cur.tag_len.val
    /\ spc' = "done"
    /\ UNCHANGED <<img, sres, cur, got, junk>>
    /\ UNCHANGED <<pvars, zvars, dvars, xvars>>

\* what a read past the end of a stream can give
JunkWords == {Word(FALSE, 0), Word(TRUE, 1)}

SInit ==
    /\ spc = "load"
    /\ \E M \in 1 .. MaxTargets :
         \E k \in 0 .. (M - 1) :
           \E tgts \in TargetLists(0, M, k), ik \in ImageKinds :
             img = Image(tgts, k, ik.slots, ik.layout, ik.init)
    /\ junk \in IF img.layout = "spec" THEN JunkWords ELSE {Word(FALSE, 0)}
    /\ sres = <<>>
    /\ cur = <<>>
    /\ got = [o \in {SlotOf(f) : f \in img.slots} |->
                InitialSlot(img, CHOOSE f \in img.slots : SlotOf(f) = o)]

PIdle ==
    /\ pc = "idle" /\ res = <<>> /\ arg = TargetData0 /\ err = "" /\ tok = <<>>
    /\ delim = "none" /\ kind = "none" /\ gh = <<>> /\ nparts = 0

InitSysimg == SInit /\ PIdle /\ ZIdle /\ DIdle /\ XIdle

NextSysimg ==
    \/ SysLoad
    \/ SysWalk
    \/ SysFill
    \/ SysReloc
    \/ SysReturn

SpecSysimg == InitSysimg /\ [][NextSysimg]_vars

(***************************************************************************)
(* Reading the loader's state against the targets the image was built of.  *)
(***************************************************************************)
ChosenIdx == img.k
Chosen == img.tgts[img.k + 1]
LoaderLayout == spc # "idle" /\ img.layout = "loader"
SpecLayout == spc # "idle" /\ img.layout = "spec"
WalkDone == spc = "walk" /\ cur.i = img.k
Filled == spc \in {"reloc", "done"}
Loaded == spc = "done"

\* where target t's words start in the two streams
IdxStart(t) == Len(IdxStream(img.tgts, t, img.layout))
OffStart(t) == Len(OffStream(img.tgts, t, img.layout))

\* the offsets array of CLONE_ALL target b
OffsetsOf(b) == IF b = 0 THEN FvarsPtr ELSE Ptr("offs", OffStart(b))

Listed(tg) == {tg.ents[i].val : i \in 1 .. Len(tg.ents)}
Tagged(tg) == {tg.ents[i].val : i \in {j \in 1 .. Len(tg.ents) : tg.ents[j].tag}}

NoOverrides ==
    sres.nclones = 0 /\ sres.clone_offsets = Null /\ sres.clone_idxs = Null

Descriptor ==
    IF ChosenIdx = 0
    THEN sres.offsets = FvarsPtr /\ NoOverrides
    ELSE IF Chosen.all
    THEN /\ sres.offsets = Ptr("offs", OffStart(ChosenIdx))
         /\ \A f \in Funcs :
               ReadOff(img, junk, sres.offsets, Word(FALSE, f)) = CloneOff(ChosenIdx, f)
         /\ NoOverrides
    ELSE /\ sres.offsets = OffsetsOf(Chosen.base)
         /\ \A f \in Funcs :
               ReadOff(img, junk, sres.offsets, Word(FALSE, f)) = CloneOff(Chosen.base, f)
         /\ sres.nclones = Len(Chosen.ents)
         /\ sres.clone_idxs.arr = "idxs"
         /\ sres.clone_offsets.arr = "offs"
         /\ \A i \in 1 .. Len(Chosen.ents) :
               /\ ReadIdx(img, junk, sres.clone_idxs.pos + i - 1) = Chosen.ents[i]
               /\ ReadOff(img, junk, sres.clone_offsets, Word(FALSE, i - 1))
                      = OverrideOff(ChosenIdx, Chosen.ents[i].val)

Cursors ==
    /\ cur.clone_idxs = IdxStart(ChosenIdx) + 1
    /\ cur.clone_offsets = OffStart(ChosenIdx)

(***************************************************************************)
(* C4.  As claimed: on streams laid out as section 4.6 has them (the base  *)
(* index leading a sparse target's offsets, nfunc offsets for every        *)
(* CLONE_ALL target) the walk over targets 0..k-1 leaves both cursors at   *)
(* the start of target k's data and the descriptor returned is target k's. *)
(***************************************************************************)
C4_WalkOnSpecLayout ==
    SpecLayout => /\ WalkDone => Cursors
                  /\ Filled => Descriptor

(***************************************************************************)
(* C4, amended.  The same on streams laid out as parse_sysimg reads them:  *)
(* in jl_dispatch_fvars_idxs a sparse target's base index follows its      *)
(* tag-length word, and jl_dispatch_fvars_offsets holds nothing for target *)
(* 0, nfunc offsets for a CLONE_ALL target other than 0 and length         *)
(* override offsets, no base word, for a sparse target.                    *)
(***************************************************************************)
C4_WalkOnLoaderLayout ==
    LoaderLayout => /\ WalkDone => Cursors
                    /\ Filled => Descriptor

C4_Witness ==
    /\ LoaderLayout
    /\ Loaded
    /\ ChosenIdx = 2
    /\ ~Chosen.all
    /\ Chosen.base = 0
    /\ Len(Chosen.ents) = 2
    /\ ~img.tgts[2].all
    /\ Len(img.tgts[2].ents) = 1

(***************************************************************************)
(* C2.  As claimed: after parse_sysimg returns, the GOT slot of every      *)
(* entry of the chosen target's index list, CLONE_ALL and sparse alike,    *)
(* holds text_base + the offset the target chose for that function.        *)
(***************************************************************************)
ChosenOffset(f) ==
    IF Chosen.all THEN CloneOff(ChosenIdx, f) ELSE OverrideOff(ChosenIdx, f)

C2_EveryEntryRelocated ==
    (LoaderLayout /\ Loaded) =>
        \A f \in Listed(Chosen) \cap img.slots :
            got[SlotOf(f)] = TextBase + ChosenOffset(f)

(***************************************************************************)
(* C2, amended.  After parse_sysimg returns, the GOT slot of every entry   *)
(* of a CLONE_ALL target's index list, and of every entry of a sparse      *)
(* target's index list that has the high bit set, holds text_base + the    *)
(* offset the target chose for that function; a sparse target's entry      *)
(* without the high bit is skipped and its slot, if it has one, is left    *)
(* as it was.                                                              *)
(***************************************************************************)
Relocated(tg) == IF tg.all THEN Listed(tg) ELSE Tagged(tg)

C2_TaggedEntriesRelocated ==
    (LoaderLayout /\ Loaded) =>
        /\ \A f \in Relocated(Chosen) \cap img.slots :
              got[SlotOf(f)] = TextBase + ChosenOffset(f)
        /\ \A f \in (Listed(Chosen) \ Relocated(Chosen)) \cap img.slots :
              got[SlotOf(f)] = InitialSlot(img, f)

C2_Witness ==
    /\ LoaderLayout
    /\ Loaded
    /\ ~Chosen.all
    /\ Tagged(Chosen) \cap img.slots # {}
    /\ (Listed(Chosen) \ Tagged(Chosen)) \cap img.slots # {}

(***************************************************************************)
(* C3.  As claimed: after parse_sysimg returns with a sparse target k      *)
(* based on target b, the GOT slot of every function k does not override   *)
(* holds text_base + target b's offset for it, and the slot of an          *)
(* overridden function text_base + k's override offset.                    *)
(***************************************************************************)
C3_BaseSlotsRelocated ==
    (LoaderLayout /\ Loaded /\ ~Chosen.all) =>
        /\ \A f \in Tagged(Chosen) \cap img.slots :
              got[SlotOf(f)] = TextBase + OverrideOff(ChosenIdx, f)
        /\ \A f \in img.slots \ Listed(Chosen) :
              got[SlotOf(f)] = TextBase + CloneOff(Chosen.base, f)

(***************************************************************************)
(* C3, amended.  After parse_sysimg returns with a sparse target k based   *)
(* on target b, for every b < k, the descriptor's offsets array is target  *)
(* b's, so a function k does not override resolves through res.offsets to  *)
(* target b's offset; the GOT slot of an overridden function holds         *)
(* text_base + k's override offset; the GOT slot of a function that k's    *)
(* index list does not tag is not written.                                 *)
(***************************************************************************)
C3_BaseOffsetsInDescriptor ==
    (LoaderLayout /\ Loaded /\ ~Chosen.all) =>
        /\ \A f \in Funcs :
              ReadOff(img, junk, sres.offsets, Word(FALSE, f)) = CloneOff(Chosen.base, f)
        /\ \A f \in Tagged(Chosen) \cap img.slots :
              got[SlotOf(f)] = TextBase + OverrideOff(ChosenIdx, f)
        /\ \A f \in img.slots \ Tagged(Chosen) :
              got[SlotOf(f)] = InitialSlot(img, f)

C3_Witness ==
    /\ LoaderLayout
    /\ Loaded
    /\ ~Chosen.all
    /\ Chosen.base = 1
    /\ Tagged(Chosen) = {0}
    /\ Listed(Chosen) = {0}
    /\ img.slots = Funcs

(***************************************************************************)
(* serialize_target_data / deserialize_target_data.  A byte of the blob is *)
(* a number 0..255 or a character; a uint32_t is four bytes, low byte      *)
(* first as memcpy lays it out on the hosts the image is built for.        *)
(***************************************************************************)
ByteRange == 256

RECURSIVE Pow2(_)
Pow2(e) == IF e = 0 THEN 1 ELSE 2 * Pow2(e - 1)

RECURSIVE SumBits(_)
SumBits(S) ==
    IF S = {} THEN 0
    ELSE LET b == CHOOSE x \in S : TRUE IN Pow2(b) + SumBits(S \ {b})

\* memcpy of a uint32_t given as its set bits
WordBytes(w) ==
    [j \in 1 .. 4 |-> SumBits({b - 8 * (j - 1) : b \in {x \in w : x \div 8 = j - 1}})]

\* memcpy of a uint32_t given as a number
NatBytes(n) ==
    [j \in 1 .. 4 |-> (n \div Pow2(8 * (j - 1))) % ByteRange]

\* memcpy into a uint32_t, read as its set bits and as a number
BytesWord(bs) ==
    {b \in Bits : (bs[b \div 8 + 1] \div Pow2(b % 8)) % 2 = 1}
BytesNat(bs) ==
    bs[1] + ByteRange * bs[2] + ByteRange * ByteRange * bs[3]
        + ByteRange * ByteRange * ByteRange * bs[4]

RECURSIVE WordsBytes(_, _)
WordsBytes(ws, m) ==
    IF m = 0 THEN <<>> ELSE WordsBytes(ws, m - 1) \o WordBytes(ws[m - 1])

serialize_target_data(name, nfeature, features_en, features_dis, ext_features) ==
    NatBytes(nfeature)
        \o WordsBytes(features_en, nfeature)
        \o WordsBytes(features_dis, nfeature)
        \o NatBytes(Len(name)) \o name
        \o NatBytes(Len(ext_features)) \o ext_features

\* the first nfeature words of a feature array, zero past FeatureList<n>
FeatureWords(fl, nfeature) ==
    [j \in 0 .. (nfeature - 1) |-> IF j < NWords THEN fl[j] ELSE {}]

\* jl_dispatch_target_ids: uint32 ntarget, then per target uint32 flags and
\* the serialized record
RECURSIVE TargetIds(_, _, _)
TargetIds(ts, n, nfeature) ==
    IF n = 0 THEN NatBytes(Len(ts))
    ELSE TargetIds(ts, n - 1, nfeature)
         \o WordBytes(ts[n].en.flags)
         \o serialize_target_data(ts[n].name, nfeature,
                                  FeatureWords(ts[n].en.features, nfeature),
                                  FeatureWords(ts[n].dis.features, nfeature),
                                  ts[n].ext_features)

\* the bytes [pos, pos + sz) of the blob
Bytes(b, pos, sz) == SubSeq(b, pos + 1, pos + sz)

\* load_string that leaves data on the string
load_string_no_advance(b, pos) ==
    LET len == BytesNat(Bytes(b, pos, 4))
    IN  [str |-> Bytes(b, pos + 4, len), pos |-> pos + 4]

\* load_string: [str, pos]
load_string(b, pos) ==
    LET len == BytesNat(Bytes(b, pos, 4))
    IN  [str |-> Bytes(b, pos + 4, len), pos |-> pos + 4 + len]

\* load_data(&target.en.features[0], 4 * n)
load_features(b, pos) ==
    [j \in 0 .. (NWords - 1) |-> BytesWord(Bytes(b, pos + 4 * j, 4))]

\* the targets that are serialized
SerialFeatures ==
    { [en |-> ZeroFeatures, dis |-> ZeroFeatures,
       flags |-> {}, dflags |-> {}, base |-> 0],
      [en |-> [j \in 0 .. (NWords - 1) |-> IF j = 0 THEN {0, 9, 31} ELSE {}],
       dis |-> [j \in 0 .. (NWords - 1) |-> IF j = NWords - 1 THEN {7, 8, 16} ELSE {24}],
       flags |-> JL_TARGET_CLONE_ALL, dflags |-> {}, base |-> 1],
      [en |-> [j \in 0 .. (NWords - 1) |-> IF j = NWords - 1 THEN {15, 23} ELSE {}],
       dis |-> ZeroFeatures,
       flags |-> {1, 31}, dflags |-> JL_TARGET_CLONE_ALL, base |-> 0] }

SerialTargets ==
    { [name |-> nm, ext_features |-> ext,
       en |-> [features |-> f.en, flags |-> f.flags],
       dis |-> [features |-> f.dis, flags |-> f.dflags],
       base |-> f.base] :
        nm \in {<<>>, <<"g", "h">>},
        ext \in {<<>>, <<"+", "f", ",", "-", "x">>},
        f \in SerialFeatures }

RECURSIVE TargetSeqs(_)
TargetSeqs(n) ==
    IF n = 0 THEN {<<>>}
    ELSE {Append(ts, t) : ts \in TargetSeqs(n - 1), t \in SerialTargets}

ZStart ==
    /\ zpc = "start"
    /\ blob' = TargetIds(zin.targets, Len(zin.targets), zin.nfeature)
    /\ zpc' = "header"
    /\ UNCHANGED <<zin, zpos, zi, zout>>
    /\ UNCHANGED <<pvars, svars, dvars, xvars>>

\* load_data(&ntarget, 4); std::vector<TargetData<n>> res(ntarget);
ZHeader ==
    /\ zpc = "header"
    /\ LET ntarget == BytesNat(Bytes(blob, zpos, 4))
       IN  zout' = [i \in 1 .. ntarget |-> TargetData0]
    /\ zpos' = zpos + 4
    /\ zi' = 0
    /\ zpc' = "record"
    /\ UNCHANGED <<zin, blob>>
    /\ UNCHANGED <<pvars, svars, dvars, xvars>>

\* one round of for (uint32_t i = 0; i < ntarget; i++)
ZRecord ==
    /\ zpc = "record"
    /\ zi < Len(zout)
    /\ LET flags == BytesWord(Bytes(blob, zpos, 4))
           nfeature == BytesNat(Bytes(blob, zpos + 4, 4))
           en == load_features(blob, zpos + 8)
           dis == load_features(blob, zpos + 8 + 4 * NWords)
           name == load_string(blob, zpos + 8 + 8 * NWords)
           ext == load_string(blob, name.pos)
       IN  IF nfeature # NWords
           THEN /\ zpc' = "assert"
                /\ zpos' = zpos + 8
                /\ UNCHANGED <<zout, zi>>
           ELSE /\ zout' = [zout EXCEPT ![zi + 1] =
                              [name |-> name.str, ext_features |-> ext.str,
                               en |-> [features |-> en, flags |-> flags],
                               dis |-> [features |-> dis, flags |-> {}],
                               base |-> 0]]
                /\ zpos' = ext.pos
                /\ zi' = zi + 1
                /\ zpc' = "record"
    /\ UNCHANGED <<zin, blob>>
    /\ UNCHANGED <<pvars, svars, dvars, xvars>>

\* return res;
ZReturn ==
    /\ zpc = "record"
    /\ zi >= Len(zout)
    /\ zpc' = "done"
    /\ UNCHANGED <<zin, blob, zpos, zi, zout>>
    /\ UNCHANGED <<pvars, svars, dvars, xvars>>

ZInit ==
    /\ zpc = "start"
    /\ \E n \in 0 .. MaxRecords :
         \E ts \in TargetSeqs(n), m \in {NWords, NWords + 1} :
            zin = [targets |-> ts, nfeature |-> m]
    /\ blob = <<>>
    /\ zpos = 0
    /\ zi = 0
    /\ zout = <<>>

InitSerial == ZInit /\ PIdle /\ SIdle /\ DIdle /\ XIdle

NextSerial ==
    \/ ZStart
    \/ ZHeader
    \/ ZRecord
    \/ ZReturn

SpecSerial == InitSerial /\ [][NextSerial]_vars

(***************************************************************************)
(* C7.  Round trip: deserialize_target_data of the blob written from a     *)
(* list of targets returns as many records, in order, with the same name,  *)
(* en.features, dis.features and ext_features and with en.flags the flags  *)
(* word; dis.flags and base come back 0.  The cursor consumes exactly the  *)
(* bytes written, 4 + 8n + 4 + namelen + 4 + extlen per record after its   *)
(* flags word; a record whose nfeature is not n fails the assertion.       *)
(***************************************************************************)
RoundTrip(t, u) ==
    /\ u.name = t.name
    /\ u.ext_features = t.ext_features
    /\ u.en.features = t.en.features
    /\ u.dis.features = t.dis.features
    /\ u.en.flags = t.en.flags
    /\ u.dis.flags = {}
    /\ u.base = 0

RecordBytes(t) ==
    4 + (4 + 8 * NWords + 4 + Len(t.name) + 4 + Len(t.ext_features))

RECURSIVE BytesUpTo(_, _)
BytesUpTo(ts, n) ==
    IF n = 0 THEN 4 ELSE BytesUpTo(ts, n - 1) + RecordBytes(ts[n])

C7_SerializationRoundTrip ==
    /\ zpc \in {"record", "done"} =>
          /\ Len(zout) = Len(zin.targets)
          /\ zin.nfeature = NWords \/ zi = 0
          /\ zpos = BytesUpTo(zin.targets, zi)
          /\ \A i \in 1 .. zi : RoundTrip(zin.targets[i], zout[i])
    /\ zpc = "done" =>
          /\ zi = Len(zin.targets)
          /\ zpos = Len(blob)
    /\ (zpc = "done" /\ zin.nfeature # NWords) => zin.targets = <<>>
    /\ zpc = "assert" => zin.nfeature # NWords

C7_Witness ==
    /\ zpc = "done"
    /\ Len(zout) = 2
    /\ zin.targets[1].dis.flags # {}
    /\ zin.targets[1].en.flags = {1, 31}
    /\ zin.targets[1].ext_features # <<>>
    /\ zin.targets[2].base = 1
    /\ zin.targets[2].name # <<>>
    /\ zin.targets[2].dis.features # ZeroFeatures
    /\ zout[1].dis.flags = {}
    /\ zout[2].base = 0
    /\ zout[2].name = zin.targets[2].name

(***************************************************************************)
(* enable_depends / disable_depends, one step per round of the for loop    *)
(* and per test of the while condition; each is called on a feature set    *)
(* and then again on its own result.                                       *)
(***************************************************************************)
\* the feature bits the edges are drawn from
DepBits == {0, 1, WordBits + 1}

FeatureDep == {[feature |-> f, dep |-> d] : f, d \in DepBits} \ {[feature |-> f, dep |-> f] : f \in DepBits}

RECURSIVE DepLists(_)
DepLists(n) ==
    IF n = 0 THEN {<<>>}
    ELSE {Append(ds, e) : ds \in DepLists(n - 1), e \in FeatureDep}

FeaturesOf(S) ==
    [j \in 0 .. (NWords - 1) |-> {b \in Bits : j * WordBits + b \in S}]

\* the body of the for loop that never records a change
depends_step_unchanged(fn, features, dep) ==
    IF ~test_nbit(features, dep.feature) \/ test_nbit(features, dep.dep)
    THEN [features |-> features, changed |-> FALSE]
    ELSE [features |-> IF fn = "enable" THEN set_bit(features, dep.dep, TRUE)
                       ELSE unset_bits(features, dep.feature),
          changed |-> FALSE]

\* the body of the for loop: the features after it and whether changed is set
depends_step(fn, features, dep) ==
    IF ~test_nbit(features, dep.feature) \/ test_nbit(features, dep.dep)
    THEN [features |-> features, changed |-> FALSE]
    ELSE [features |-> IF fn = "enable" THEN set_bit(features, dep.dep, TRUE)
                       ELSE unset_bits(features, dep.feature),
          changed |-> TRUE]

\* while (changed) { changed = false; for (ssize_t i = ndeps - 1; ...
DWhile ==
    /\ dpc = "while"
    /\ dchanged
    /\ dchanged' = FALSE
    /\ di' = Len(deps) - 1
    /\ dpass' = dpass + 1
    /\ dpc' = "for"
    /\ UNCHANGED <<dfn, deps, din, dset, dround, dfirst>>
    /\ UNCHANGED <<pvars, svars, zvars, xvars>>

\* one round of the for loop, i >= 0
DFor ==
    /\ dpc = "for"
    /\ di >= 0
    /\ LET r == depends_step(dfn, dset, deps[di + 1])
       IN  /\ dset' = r.features
           /\ dchanged' = (dchanged \/ r.changed)
    /\ di' = di - 1
    /\ UNCHANGED <<dpc, dfn, deps, din, dpass, dround, dfirst>>
    /\ UNCHANGED <<pvars, svars, zvars, xvars>>

\* i < 0: back to the while condition
DForEnd ==
    /\ dpc = "for"
    /\ di < 0
    /\ dpc' = "while"
    /\ UNCHANGED <<dfn, deps, din, dset, di, dchanged, dpass, dround, dfirst>>
    /\ UNCHANGED <<pvars, svars, zvars, xvars>>

\* changed is false: the call returns
DReturn ==
    /\ dpc = "while"
    /\ ~dchanged
    /\ dpc' = "done"
    /\ UNCHANGED <<dfn, deps, din, dset, di, dchanged, dpass, dround, dfirst>>
    /\ UNCHANGED <<pvars, svars, zvars, xvars>>

\* the same function called on the result: bool changed = true;
DAgain ==
    /\ dpc = "done"
    /\ dround = 1
    /\ dround' = 2
    /\ dfirst' = dset
    /\ dchanged' = TRUE
    /\ dpass' = 0
    /\ dpc' = "while"
    /\ UNCHANGED <<dfn, deps, din, dset, di>>
    /\ UNCHANGED <<pvars, svars, zvars, xvars>>

DInit ==
    /\ dpc = "while"
    /\ dfn \in {"enable", "disable"}
    /\ \E n \in 0 .. MaxDeps : deps \in DepLists(n)
    /\ \E S \in SUBSET DepBits : din = FeaturesOf(S)
    /\ dset = din
    /\ di = 0
    /\ dchanged = TRUE
    /\ dpass = 0
    /\ dround = 1
    /\ dfirst = <<>>

InitDepends == DInit /\ PIdle /\ SIdle /\ ZIdle /\ XIdle

NextDepends ==
    \/ DWhile
    \/ DFor
    \/ DForEnd
    \/ DReturn
    \/ DAgain

\* the loops are straight-line code: a step that can be taken is taken
SpecDepends == InitDepends /\ [][NextDepends]_vars /\ WF_vars(NextDepends)

(***************************************************************************)
(* C8.  Closure idempotence: for every feature set and every edge list     *)
(* both loops terminate; enable_depends only adds bits and disable_depends *)
(* only removes bits; after either call no edge (f, d) has f in the set    *)
(* and d absent; and the call on the result of a call changes nothing.     *)
(***************************************************************************)
Subset(a, b) == \A j \in 0 .. (NWords - 1) : a[j] \subseteq b[j]

Closed(features) ==
    \A i \in 1 .. Len(deps) :
        test_nbit(features, deps[i].feature) => test_nbit(features, deps[i].dep)

C8_Safe ==
    /\ dfn = "enable" => Subset(din, dset)
    /\ dfn = "disable" => Subset(dset, din)
    /\ dpc = "done" => Closed(dset)
    /\ dround = 2 => dset = dfirst
    /\ dpass <= Cardinality(DepBits) + 1

C8_ClosureIdempotence ==
    /\ []C8_Safe
    /\ <>(dpc = "done" /\ dround = 2)

C8_Witness ==
    /\ dpc = "done"
    /\ dround = 2
    /\ dfn = "disable"
    /\ dfirst # din
    /\ dfirst # ZeroFeatures
    /\ Len(deps) = 3
    /\ \E i, j \in 1 .. Len(deps) :
          deps[i].feature = deps[j].dep /\ deps[i].dep = deps[j].feature

(***************************************************************************)
(* test_nbit / set_bit / unset_bits / get_feature_masks called with the    *)
(* bit indices a caller has at hand: bits inside the n words, and          *)
(* find_feature_bit's (uint32_t)-1.  bits[u32idx] with u32idx >= n is an   *)
(* access outside the array: the call faults, or it goes on having read or *)
(* written memory that is not the array's.                                 *)
(***************************************************************************)
\* 2^32 / 32
U32Words == 134217728

\* auto bitidx = static_cast<uint32_t>(_bitidx); auto u32idx = bitidx / 32;
u32idx_of(bitidx) ==
    IF bitidx >= 0 THEN bitidx \div WordBits ELSE U32Words + (bitidx \div WordBits)
\* auto bit = bitidx % 32;
bit_of(bitidx) == bitidx % WordBits

\* bits[u32idx] is an element of FeatureList<n>
InArray(bitidx) == u32idx_of(bitidx) < NWords

\* the bit indices passed
BitArgs == {0, WordBits - 1, WordBits + 1, NoFeature}

RECURSIVE ArgLists(_)
ArgLists(n) ==
    IF n = 0 THEN {<<>>}
    ELSE {Append(l, b) : l \in ArgLists(n - 1), b \in BitArgs}

\* unset_bits(bits, _bitidx, rest...) on the words of the array
RECURSIVE unset_all(_, _)
unset_all(bits, idxs) ==
    IF idxs = <<>> THEN bits
    ELSE unset_all(IF InArray(idxs[1]) THEN unset_bits(bits, idxs[1]) ELSE bits,
                   Tail(idxs))

\* add_feature_mask_u32(mask, u32idx, bit, args...)
RECURSIVE add_feature_mask_u32(_, _, _)
add_feature_mask_u32(mask, u32idx, args) ==
    IF args = <<>> THEN mask
    ELSE LET bit == args[1]
         IN  add_feature_mask_u32(
                 mask \cup (IF bit >= 0 /\ bit \div WordBits = u32idx
                            THEN {bit % WordBits} ELSE {}),
                 u32idx, Tail(args))

get_feature_mask_u32(u32idx, args) == add_feature_mask_u32({}, u32idx, args)

get_feature_masks(args) ==
    [I \in 0 .. (NWords - 1) |-> get_feature_mask_u32(I, args)]

\* the call ends in a fault
BFault ==
    /\ bpc' = "fault"
    /\ boob' = TRUE
    /\ UNCHANGED <<bfl, bret>>

\* test_nbit(bits, _bitidx)
BTest ==
    /\ bpc = "call"
    /\ \E idx \in BitArgs :
        /\ bop' = "test_nbit"
        /\ bidx' = <<idx>>
        /\ IF InArray(idx)
           THEN /\ bret' = test_nbit(bin, idx)
                /\ bpc' = "done"
                /\ UNCHANGED <<bfl, boob>>
           ELSE \/ BFault
                \/ /\ bret' \in BOOLEAN
                   /\ boob' = TRUE
                   /\ bpc' = "done"
                   /\ UNCHANGED bfl
    /\ UNCHANGED bin
    /\ UNCHANGED <<pvars, svars, zvars, dvars, evars>>

\* set_bit(bits, _bitidx, val)
BSet ==
    /\ bpc = "call"
    /\ \E idx \in BitArgs, val \in BOOLEAN :
        /\ bop' = IF val THEN "set_bit true" ELSE "set_bit false"
        /\ bidx' = <<idx>>
        /\ IF InArray(idx)
           THEN /\ bfl' = set_bit(bin, idx, val)
                /\ bpc' = "done"
                /\ UNCHANGED <<bret, boob>>
           ELSE \/ BFault
                \/ /\ boob' = TRUE
                   /\ bpc' = "done"
                   /\ UNCHANGED <<bfl, bret>>
    /\ UNCHANGED bin
    /\ UNCHANGED <<pvars, svars, zvars, dvars, evars>>

\* unset_bits(bits, _bitidx, rest...)
BUnset ==
    /\ bpc = "call"
    /\ \E n \in 1 .. 2 : \E idxs \in ArgLists(n) :
        /\ bop' = "unset_bits"
        /\ bidx' = idxs
        /\ IF \A i \in 1 .. n : InArray(idxs[i])
           THEN /\ bfl' = unset_all(bin, idxs)
                /\ bpc' = "done"
                /\ UNCHANGED <<bret, boob>>
           ELSE \/ BFault
                \/ /\ bfl' = unset_all(bin, idxs)
                   /\ boob' = TRUE
                   /\ bpc' = "done"
                   /\ UNCHANGED bret
    /\ UNCHANGED bin
    /\ UNCHANGED <<pvars, svars, zvars, dvars, evars>>

\* get_feature_masks<n>(args...)
BMask ==
    /\ bpc = "call"
    /\ \E n \in 1 .. 2 : \E idxs \in ArgLists(n) :
        /\ bop' = "get_feature_masks"
        /\ bidx' = idxs
        /\ bfl' = get_feature_masks(idxs)
        /\ bpc' = "done"
    /\ UNCHANGED <<bin, bret, boob>>
    /\ UNCHANGED <<pvars, svars, zvars, dvars, evars>>

BInit ==
    /\ bpc = "call"
    /\ bop = "none"
    /\ bidx = <<>>
    /\ \E S \in SUBSET (BitArgs \ {NoFeature}) : bin = FeaturesOf(S)
    /\ bfl = bin
    /\ bret = FALSE
    /\ boob = FALSE

InitBits == BInit /\ PIdle /\ SIdle /\ ZIdle /\ DIdle /\ EIdle

NextBits ==
    \/ BTest
    \/ BSet
    \/ BUnset
    \/ BMask

SpecBits == InitBits /\ [][NextBits]_vars

(***************************************************************************)
(* C11.  The bit index uint32::MAX is silently ignored by every operation: *)
(* test_nbit reports it as not set, set_bit and unset_bits leave every     *)
(* word of the set unchanged, get_feature_masks contributes no bit for it, *)
(* and none of them reads or writes outside the n words.                   *)
(***************************************************************************)
HasSentinel == \E i \in 1 .. Len(bidx) : bidx[i] = NoFeature
Others == SelectSeq(bidx, LAMBDA b : b # NoFeature)

C11_SentinelIgnored ==
    (bpc # "call" /\ HasSentinel) =>
        /\ bpc = "done"
        /\ ~boob
        /\ bop = "test_nbit" => ~bret
        /\ bop \in {"set_bit true", "set_bit false"} => bfl = bin
        /\ bop = "unset_bits" => bfl = unset_all(bin, Others)
        /\ bop = "get_feature_masks" => bfl = get_feature_masks(Others)

\* what does hold: get_feature_masks contributes no bit for it and stays
\* inside the array
C11_MaskIgnoresSentinel ==
    (bpc # "call" /\ HasSentinel /\ bop = "get_feature_masks") =>
        /\ bpc = "done"
        /\ ~boob
        /\ bfl = get_feature_masks(Others)

(***************************************************************************)
(* parse_cmdline on option strings of up to MaxCommitParts parts over a    *)
(* smaller alphabet: long enough for a target to follow one that declared  *)
(* a base other than 0.                                                    *)
(***************************************************************************)
CommitNames == { <<"g">> }

CommitTokens ==
    { clone_all,
      <<"f", "u", "t">>,
      <<"b", "a", "s", "e", "(", "1", ")">> }

CommitEmptyName == ParseEmptyNameTo(MaxCommitParts)
CommitName == ParseNameIn(CommitNames, MaxCommitParts)
CommitToken == ParseTokenIn(CommitTokens, MaxCommitParts)

NextCommit ==
    \/ ParseNull
    \/ ParseBegin
    \/ CommitEmptyName
    \/ CommitName
    \/ CommitToken

SpecCommit == Init /\ [][NextCommit]_vars

(***************************************************************************)
(* C12.  Each committed target reflects only its own tokens: a target      *)
(* returned by parse_cmdline that has no base(k) token of its own has      *)
(* base = 0, whatever base an earlier target of the list declared.         *)
(***************************************************************************)
C12_BaseIsOwn ==
    Returned =>
        \A i \in 1 .. Len(res) : gh[i].base = "none" => res[i].base = 0

(***************************************************************************)
(* append_ext_features, both overloads, on the ext_features strings        *)
(* parse_cmdline builds: signed entries joined by commas.                  *)
(***************************************************************************)
ExtEntries ==
    { <<"+", "a">>, <<"-", "b", "c">>, <<"+", "d">> }

RECURSIVE EntryLists(_)
EntryLists(n) ==
    IF n = 0 THEN {<<>>}
    ELSE {Append(l, e) : l \in EntryLists(n - 1), e \in ExtEntries}

\* arg.ext_features as parse_cmdline appends to it
RECURSIVE JoinEntries(_)
JoinEntries(l) ==
    IF l = <<>> THEN <<>>
    ELSE append_ext(JoinEntries(SubSeq(l, 1, Len(l) - 1)),
                    l[Len(l)][1] = "-", Tail(l[Len(l)]))

\* append_ext_features(std::string &features, const std::string &ext_features)
append_ext_features_string(features, ext_features) ==
    IF ext_features = <<>> THEN features
    ELSE (IF features # <<>> THEN Append(features, ",") ELSE features)
             \o ext_features

\* for (const char *p = start; *p; p++) { if (*p == ',' || *p == '\0') { ... } }
\* start and p are 1-based positions in ext_features
RECURSIVE append_ext_loop(_, _, _, _)
append_ext_loop(features, ext_features, start, p) ==
    LET c == CharAt(ext_features, p, NUL)
    IN  IF c = NUL THEN features
        ELSE IF c = "," \/ c = NUL
        THEN append_ext_loop(Append(features, SubSeq(ext_features, start, p - 1)),
                             ext_features, p + 1, p + 1)
        ELSE append_ext_loop(features, ext_features, start, p + 1)

\* append_ext_features(std::vector<std::string> &features,
\*                     const std::string &ext_features)
append_ext_features_vector(features, ext_features) ==
    IF ext_features = <<>> THEN features
    ELSE append_ext_loop(features, ext_features, 1, 1)

EVector ==
    /\ epc = "call"
    /\ evec' = append_ext_features_vector(evec0, eext)
    /\ epc' = "vector"
    /\ UNCHANGED <<eext, evec0, estr0, estr>>
    /\ UNCHANGED <<pvars, svars, zvars, dvars, bvars>>

EString ==
    /\ epc = "call"
    /\ estr' = append_ext_features_string(estr0, eext)
    /\ epc' = "string"
    /\ UNCHANGED <<eext, evec0, evec, estr0>>
    /\ UNCHANGED <<pvars, svars, zvars, dvars, bvars>>

EInit ==
    /\ epc = "call"
    /\ \E n \in 0 .. MaxEntries : \E l \in EntryLists(n) : eext = JoinEntries(l)
    /\ evec0 \in {<<>>, << <<"+", "z">> >>}
    /\ evec = evec0
    /\ estr0 \in {<<>>, <<"+", "z">>}
    /\ estr = estr0

InitExt == EInit /\ PIdle /\ SIdle /\ ZIdle /\ DIdle /\ BIdle

NextExt ==
    \/ EVector
    \/ EString

SpecExt == InitExt /\ [][NextExt]_vars

(***************************************************************************)
(* C13.  Forwarding ext_features loses nothing: for a non-empty string     *)
(* "e1,e2,...,em" the vector overload appends exactly the entries e1..em,  *)
(* in order, the last one included; the string overload appends the whole  *)
(* string, preceded by a comma iff the destination was non-empty; an empty *)
(* ext_features leaves the destination unchanged in both.                  *)
(***************************************************************************)
\* the entries of "e1,e2,...,em", read off the commas
RECURSIVE SplitFrom(_, _, _)
SplitFrom(str, j, e) ==
    IF j > Len(str) THEN <<e>>
    ELSE IF str[j] = "," THEN <<e>> \o SplitFrom(str, j + 1, <<>>)
    ELSE SplitFrom(str, j + 1, Append(e, str[j]))
Split(str) == IF str = <<>> THEN <<>> ELSE SplitFrom(str, 1, <<>>)

C13_ForwardingLosesNothing ==
    /\ epc = "vector" => evec = evec0 \o Split(eext)
    /\ epc = "string" =>
          estr = IF eext = <<>> THEN estr0
                 ELSE IF estr0 # <<>> THEN estr0 \o <<",">> \o eext
                 ELSE eext

\* what does hold: the vector overload appends all entries but the last, the
\* string overload is as claimed
C13_LastEntryDropped ==
    /\ epc = "vector" =>
          evec = evec0 \o SubSeq(Split(eext), 1, Len(Split(eext)) - 1)
    /\ epc = "string" =>
          estr = IF eext = <<>> THEN estr0
                 ELSE IF estr0 # <<>> THEN estr0 \o <<",">> \o eext
                 ELSE eext

====
